---- MODULE Spec2Model ----
(***************************************************************************)
(* pyth-min: decoding of a Pyth price update account (PriceFeedMessage,    *)
(* VerificationLevel, PriceUpdateV2) and the price queries on a decoded    *)
(* PriceUpdateV2.  Every operation of the crate is a pure function; each   *)
(* is an operator here, applied by one action to inputs drawn by Init.     *)
(*                                                                         *)
(* A panic (assert!, unwrap on None/Err, slice index out of range,         *)
(* copy_from_slice length mismatch) is the outcome Abort.                  *)
(*                                                                         *)
(* 64-bit values do not fit TLC's integers.  A Rust integer is modelled by *)
(* its mathematical value, held as sign and magnitude, the magnitude in    *)
(* limbs of 16 bits, least significant limb first.                         *)
(***************************************************************************)
EXTENDS Integers, Sequences, FiniteSets

VARIABLES
    v,          \* the byte slice handed to a decoder
    decoded,    \* the decoder that ran on v and what it returned
    self,       \* the PriceUpdateV2 a query is made on
    call,       \* the query made on self, with its arguments
    res,        \* what the query returned
    lhs,        \* VerificationLevel::gte: self
    rhs,        \* VerificationLevel::gte: other
    cmp         \* VerificationLevel::gte: the call and its result

vars == <<v, decoded, self, call, res, lhs, rhs, cmp>>

---------------------------------------------------------------------------
(* Bounds of the model.                                                    *)

\* byte patterns a buffer is filled with: seeds 0 .. NumSeeds-1
NumSeeds == 3
\* buffer lengths: each anchor length (0, 4, 8, 32, 84, 125) plus 0 .. MaxExtra
MaxExtra == 4
\* times and ages: each anchor (i64::MIN, 0, i64::MAX, u64::MAX, ...) and the
\* MaxDelta values next to it
MaxDelta == 1
\* Partial { num_signatures } of the records and requirements of a query:
\* 0 .. MaxSigs, and 255
MaxSigs == 2

---------------------------------------------------------------------------
(* Outcomes.                                                               *)

Abort == [kind |-> "abort"]
Ok(x) == [kind |-> "ok", val |-> x]
Err(e) == [kind |-> "err", err |-> e]

---------------------------------------------------------------------------
(* Integers: sign and magnitude, magnitude in 16-bit limbs.                *)

Radix == 256 * 256
\* four limbs hold 64 bits; two more hold the carry of a sum and a product
NLimbs == 4 + 2
LimbIx == 1..NLimbs

MagZero == [k \in LimbIx |-> 0]

MagAdd(a, b) ==
    LET c[k \in 0..NLimbs] ==
            IF k = 0 THEN 0 ELSE (a[k] + b[k] + c[k - 1]) \div Radix
    IN  [k \in LimbIx |-> (a[k] + b[k] + c[k - 1]) % Radix]

\* a - b, for a >= b
MagSub(a, b) ==
    LET br[k \in 0..NLimbs] ==
            IF k = 0 THEN 0
            ELSE IF a[k] - b[k] - br[k - 1] < 0 THEN 1 ELSE 0
    IN  [k \in LimbIx |-> (a[k] - b[k] - br[k - 1] + Radix) % Radix]

MagLess(a, b) ==
    \E k \in LimbIx : a[k] < b[k] /\ \A j \in (k + 1)..NLimbs : a[j] = b[j]

\* 256^n, n even
MagPow256(n) == [k \in LimbIx |-> IF k = (n \div 2) + 1 THEN 1 ELSE 0]

ZMake(neg, mag) == [neg |-> neg /\ mag # MagZero, mag |-> mag]

ZNat(n) == ZMake(FALSE, [k \in LimbIx |-> IF k = 1 THEN n ELSE 0])

ZNeg(x) == ZMake(~x.neg, x.mag)

ZAdd(x, y) ==
    IF x.neg = y.neg THEN ZMake(x.neg, MagAdd(x.mag, y.mag))
    ELSE IF MagLess(x.mag, y.mag) THEN ZMake(y.neg, MagSub(y.mag, x.mag))
    ELSE ZMake(x.neg, MagSub(x.mag, y.mag))

ZLess(x, y) ==
    IF x.neg /\ ~y.neg THEN TRUE
    ELSE IF ~x.neg /\ y.neg THEN FALSE
    ELSE IF x.neg THEN MagLess(y.mag, x.mag)
    ELSE MagLess(x.mag, y.mag)

ZLeq(x, y) == x = y \/ ZLess(x, y)

\* i64::MIN, i64::MAX, u64::MAX
I64Max == ZMake(FALSE, MagSub([k \in LimbIx |-> IF k = 4 THEN 32768 ELSE 0],
                              ZNat(1).mag))
I64Min == ZMake(TRUE, [k \in LimbIx |-> IF k = 4 THEN 32768 ELSE 0])
U64Max == ZMake(FALSE, MagSub(MagPow256(8), ZNat(1).mag))

---------------------------------------------------------------------------
(* byte_utils.rs                                                           *)

Byte == 0..255

\* &s[a..b]: panics unless a <= b <= s.len(); a call f(&s[a..b]) is
\* IF InRange(s, a, b) THEN f(Slice(s, a, b)) ELSE Abort
InRange(s, a, b) == a <= b /\ b <= Len(s)
Slice(s, a, b) == SubSeq(s, a + 1, b)

\* a faulty variant: the bytes read most significant first
from_be_bytes_unsigned(arr) ==
    ZMake(FALSE, [k \in LimbIx |->
                    IF 2 * k <= Len(arr)
                    THEN arr[Len(arr) - 2 * k + 2] + 256 * arr[Len(arr) - 2 * k + 1]
                    ELSE 0])

\* uN::from_le_bytes: the bytes pair up into limbs, low byte first
from_le_bytes_unsigned(arr) ==
    ZMake(FALSE, [k \in LimbIx |->
                    IF 2 * k <= Len(arr) THEN arr[2 * k - 1] + 256 * arr[2 * k]
                    ELSE 0])

\* iN::from_le_bytes: two's complement, the sign in the top bit of the last byte
from_le_bytes_signed(arr) ==
    LET u == from_le_bytes_unsigned(arr)
    IN  IF arr[Len(arr)] >= 128
        THEN ZMake(TRUE, MagSub(MagPow256(Len(arr)), u.mag))
        ELSE u

\* [0u8; N].copy_from_slice(bytes) panics unless bytes.len() = N
interpret_bytes_as_i64(bytes) ==
    IF Len(bytes) # 8 THEN Abort ELSE Ok(from_le_bytes_signed(bytes))

interpret_bytes_as_i32(bytes) ==
    IF Len(bytes) # 4 THEN Abort ELSE Ok(from_le_bytes_signed(bytes))

interpret_bytes_as_u64(bytes) ==
    IF Len(bytes) # 8 THEN Abort ELSE Ok(from_le_bytes_unsigned(bytes))

\* a 32-byte array filled by copy_from_slice(&s[0..32])
copy_32(bytes) ==
    IF Len(bytes) # 32 THEN Abort ELSE Ok(bytes)

---------------------------------------------------------------------------
(* messages.rs                                                             *)

\* #[repr(C)] struct PriceFeedMessage: the fields in declaration order, each
\* with its size and its alignment (64-bit integers align to 8)
PriceFeedMessageFields ==
    << [name |-> "feed_id",           size |-> 32, align |-> 1],
       [name |-> "price",             size |-> 8,  align |-> 8],
       [name |-> "conf",              size |-> 8,  align |-> 8],
       [name |-> "exponent",          size |-> 4,  align |-> 4],
       [name |-> "publish_time",      size |-> 8,  align |-> 8],
       [name |-> "prev_publish_time", size |-> 8,  align |-> 8],
       [name |-> "ema_price",         size |-> 8,  align |-> 8],
       [name |-> "ema_conf",          size |-> 8,  align |-> 8] >>

AlignUp(n, a) == ((n + a - 1) \div a) * a

\* the offset just past field n of a repr(C) struct
RECURSIVE ReprCEnd(_, _)
ReprCEnd(fields, n) ==
    IF n = 0 THEN 0
    ELSE AlignUp(ReprCEnd(fields, n - 1), fields[n].align) + fields[n].size

\* std::mem::size_of of a repr(C) struct: the end of the last field, rounded
\* up to the struct's alignment
size_of(fields) ==
    LET maxAlign == CHOOSE a \in {fields[i].align : i \in DOMAIN fields} :
                        \A i \in DOMAIN fields : fields[i].align <= a
    IN  AlignUp(ReprCEnd(fields, Len(fields)), maxAlign)

\* a faulty variant: the fields read at their repr(C) offsets in memory, the
\* 4 padding bytes after exponent counted in
get_feed_from_bytes_padded(s) ==
    IF Len(s) # size_of(PriceFeedMessageFields) THEN Abort
    ELSE Ok([feed_id           |-> Slice(s, 0, 32),
             price             |-> from_le_bytes_signed(Slice(s, 32, 40)),
             conf              |-> from_le_bytes_unsigned(Slice(s, 40, 48)),
             exponent          |-> from_le_bytes_signed(Slice(s, 48, 52)),
             publish_time      |-> from_le_bytes_signed(Slice(s, 56, 64)),
             prev_publish_time |-> from_le_bytes_signed(Slice(s, 64, 72)),
             ema_price         |-> from_le_bytes_signed(Slice(s, 72, 80)),
             ema_conf          |-> from_le_bytes_unsigned(Slice(s, 80, 88))])

get_feed_from_bytes(s) ==
    IF Len(s) # size_of(PriceFeedMessageFields) THEN Abort
    ELSE
    LET feed_id           == IF InRange(s, 0, 32) THEN copy_32(Slice(s, 0, 32)) ELSE Abort
        price             == IF InRange(s, 32, 40) THEN interpret_bytes_as_i64(Slice(s, 32, 40)) ELSE Abort
        conf              == IF InRange(s, 40, 48) THEN interpret_bytes_as_u64(Slice(s, 40, 48)) ELSE Abort
        exponent          == IF InRange(s, 48, 52) THEN interpret_bytes_as_i32(Slice(s, 48, 52)) ELSE Abort
        publish_time      == IF InRange(s, 52, 60) THEN interpret_bytes_as_i64(Slice(s, 52, 60)) ELSE Abort
        prev_publish_time == IF InRange(s, 60, 68) THEN interpret_bytes_as_i64(Slice(s, 60, 68)) ELSE Abort
        ema_price         == IF InRange(s, 68, 76) THEN interpret_bytes_as_i64(Slice(s, 68, 76)) ELSE Abort
        ema_conf          == IF InRange(s, 76, 84) THEN interpret_bytes_as_u64(Slice(s, 76, 84)) ELSE Abort
        parts == <<feed_id, price, conf, exponent, publish_time,
                   prev_publish_time, ema_price, ema_conf>>
    IN  IF \E i \in DOMAIN parts : parts[i].kind = "abort" THEN Abort
        ELSE Ok([feed_id           |-> feed_id.val,
                 price             |-> price.val,
                 conf              |-> conf.val,
                 exponent          |-> exponent.val,
                 publish_time      |-> publish_time.val,
                 prev_publish_time |-> prev_publish_time.val,
                 ema_price         |-> ema_price.val,
                 ema_conf          |-> ema_conf.val])

---------------------------------------------------------------------------
(* price_update.rs: VerificationLevel                                      *)

Full == [variant |-> "Full"]
Partial(n) == [variant |-> "Partial", num_signatures |-> n]

\* a faulty variant: a strict comparison of the signature counts
gte_strict(me, other) ==
    IF me.variant = "Full" THEN TRUE
    ELSE IF other.variant = "Full" THEN FALSE
    ELSE me.num_signatures > other.num_signatures

gte(me, other) ==
    IF me.variant = "Full" THEN TRUE
    ELSE IF other.variant = "Full" THEN FALSE
    ELSE me.num_signatures >= other.num_signatures

\* a faulty variant: every tag other than 0x01 read as Partial
get_verification_from_bytes_defaulting(s) ==
    IF ~(Len(s) = 1 \/ Len(s) = 2) THEN Abort
    ELSE IF s[1] = 1 THEN Ok(Full)
    ELSE IF Len(s) >= 2 THEN Ok(Partial(s[2])) ELSE Abort

get_verification_from_bytes(s) ==
    IF ~(Len(s) = 1 \/ Len(s) = 2) THEN Abort
    ELSE IF s[1] = 1 THEN Ok(Full)
    ELSE IF s[1] = 0
         THEN IF Len(s) >= 2 THEN Ok(Partial(s[2])) ELSE Abort
    ELSE Abort

---------------------------------------------------------------------------
(* price_update.rs: PriceUpdateV2                                          *)

get_price_update_v2_from_bytes(s) ==
    LET write_authority == IF InRange(s, 0, 32) THEN copy_32(Slice(s, 0, 32)) ELSE Abort
    IN
    IF write_authority.kind = "abort" THEN Abort
    ELSE IF Len(s) <= 32 THEN Abort
    ELSE
    LET verification_one_byte == s[32 + 1] = 1
        verification_level ==
            IF verification_one_byte
            THEN (IF InRange(s, 32, 33) THEN get_verification_from_bytes(Slice(s, 32, 33)) ELSE Abort)
            ELSE (IF InRange(s, 32, 34) THEN get_verification_from_bytes(Slice(s, 32, 34)) ELSE Abort)
        price_message ==
            IF verification_one_byte
            THEN (IF InRange(s, 33, 117) THEN get_feed_from_bytes(Slice(s, 33, 117)) ELSE Abort)
            ELSE (IF InRange(s, 34, 118) THEN get_feed_from_bytes(Slice(s, 34, 118)) ELSE Abort)
        posted_slot ==
            IF verification_one_byte
            THEN (IF InRange(s, 117, 125) THEN interpret_bytes_as_u64(Slice(s, 117, 125)) ELSE Abort)
            ELSE (IF InRange(s, 118, 126) THEN interpret_bytes_as_u64(Slice(s, 118, 126)) ELSE Abort)
    IN  IF \/ verification_level.kind = "abort"
           \/ price_message.kind = "abort"
           \/ posted_slot.kind = "abort"
        THEN Abort
        ELSE Ok([write_authority    |-> write_authority.val,
                 verification_level |-> verification_level.val,
                 price_message      |-> price_message.val,
                 posted_slot        |-> posted_slot.val])

\* Option<&FeedId>
None == [some |-> FALSE]
Some(x) == [some |-> TRUE, val |-> x]

\* a faulty variant: only the first 8 bytes of the feed id compared
get_price_unchecked_prefix(me, feed_id) ==
    IF feed_id.some /\ Slice(me.price_message.feed_id, 0, 8) # Slice(feed_id.val, 0, 8)
    THEN Err("MismatchedFeedId")
    ELSE Ok([price        |-> me.price_message.price,
             conf         |-> me.price_message.conf,
             exponent     |-> me.price_message.exponent,
             publish_time |-> me.price_message.publish_time])

get_price_unchecked(me, feed_id) ==
    IF feed_id.some /\ me.price_message.feed_id # feed_id.val
    THEN Err("MismatchedFeedId")
    ELSE Ok([price        |-> me.price_message.price,
             conf         |-> me.price_message.conf,
             exponent     |-> me.price_message.exponent,
             publish_time |-> me.price_message.publish_time])

\* u64 -> i64 try_into: Err above i64::MAX, and unwrap() panics on it
try_into_i64_unwrap(x) ==
    IF ZLess(I64Max, x) THEN Abort ELSE Ok(x)

\* i64::saturating_add
saturating_add(a, b) ==
    LET sum == ZAdd(a, b)
    IN  IF ZLess(I64Max, sum) THEN I64Max
        ELSE IF ZLess(sum, I64Min) THEN I64Min
        ELSE sum

\* a faulty variant: the comparison of the levels the wrong way round
with_custom_verification_level_swapped(me, unix_timestamp, maximum_age, feed_id, verification_level) ==
    IF ~gte(verification_level, me.verification_level)
    THEN Err("InsufficientVerificationLevel")
    ELSE
    LET price == get_price_unchecked(me, feed_id)
    IN  IF price.kind = "err" THEN price
        ELSE
        LET age == try_into_i64_unwrap(maximum_age)
        IN  IF age.kind = "abort" THEN Abort
            ELSE IF ~ZLeq(unix_timestamp,
                          saturating_add(price.val.publish_time, age.val))
            THEN Err("PriceTooOld")
            ELSE price

\* a faulty variant: the feed id checked before the verification level
with_custom_verification_level_feed_first(me, unix_timestamp, maximum_age, feed_id, verification_level) ==
    LET price == get_price_unchecked(me, feed_id)
    IN  IF price.kind = "err" THEN price
        ELSE IF ~gte(me.verification_level, verification_level)
        THEN Err("InsufficientVerificationLevel")
        ELSE
        LET age == try_into_i64_unwrap(maximum_age)
        IN  IF age.kind = "abort" THEN Abort
            ELSE IF ~ZLeq(unix_timestamp,
                          saturating_add(price.val.publish_time, age.val))
            THEN Err("PriceTooOld")
            ELSE price

get_price_no_older_than_with_custom_verification_level(me, unix_timestamp, maximum_age, feed_id, verification_level) ==
    IF ~gte(me.verification_level, verification_level)
    THEN Err("InsufficientVerificationLevel")
    ELSE
    LET price == get_price_unchecked(me, feed_id)
    IN  IF price.kind = "err" THEN price
        ELSE
        LET age == try_into_i64_unwrap(maximum_age)
        IN  IF age.kind = "abort" THEN Abort
            ELSE IF ~ZLeq(unix_timestamp,
                          saturating_add(price.val.publish_time, age.val))
            THEN Err("PriceTooOld")
            ELSE price

\* a faulty variant: any verification level accepted
get_price_no_older_than_any_level(me, unix_timestamp, maximum_age, feed_id) ==
    get_price_no_older_than_with_custom_verification_level(me, unix_timestamp, maximum_age, feed_id, Partial(0))

get_price_no_older_than(me, unix_timestamp, maximum_age, feed_id) ==
    get_price_no_older_than_with_custom_verification_level(me, unix_timestamp, maximum_age, feed_id, Full)

---------------------------------------------------------------------------
(* The accounts of the crate's tests, as hex_to_bytes returns them.        *)

\* mainnet 7UVimffxr9ow1uXYxsr4LHAcV58mLzhmwaeKvJ1pjLiE (fully verified)
MainnetAccount ==
    <<  34, 241,  35,  99, 157, 126, 244, 205,  96,  49,  71,   4,  52,  13, 237, 223,
        55,  31, 212,  36, 114,  20, 143,  36, 142, 157,  26, 109,  26,  94, 178, 172,
        58, 205, 139, 127, 213, 214, 178,  67,   1, 239,  13, 139, 111, 218,  44, 235,
       164,  29, 161,  93,  64, 149, 209, 218,  57,  42,  13,  47, 142, 208, 198, 199,
       188,  15,  76, 250, 200, 194, 128, 181, 109,  16, 127, 200, 227,   3,   0,   0,
         0,  73, 167,  85,   1,   0,   0,   0,   0, 248, 255, 255, 255,  49,  73,  99,
       102,   0,   0,   0,   0,  48,  73,  99, 102,   0,   0,   0,   0, 140, 196,  39,
       237,   3,   0,   0,   0, 155,  20,   3,   1,   0,   0,   0,   0, 221, 237,  30,
        16,   0,   0,   0,   0,   0 >>

\* devnet DMzo13MxzhrU1dbtJRCxdLoa9zwWowBJu17KhRQ5tLWM (5 signatures)
DevnetAccount ==
    <<  34, 241,  35,  99, 157, 126, 244, 205,  13, 136,  27, 159, 103, 200, 203,  61,
        82, 253,  46, 178, 125,  19, 194,   9,  81, 209, 153,  33,  43, 117,   2,  29,
        85, 236, 191,  94,  24,  59, 140, 219,   0,   5, 239,  13, 139, 111, 218,  44,
       235, 164,  29, 161,  93,  64, 149, 209, 218,  57,  42,  13,  47, 142, 208, 198,
       199, 188,  15,  76, 250, 200, 194, 128, 181, 109,  94, 175,  52, 151,   3,   0,
         0,   0,  14,  98, 232,   0,   0,   0,   0,   0, 248, 255, 255, 255, 251,  78,
       104, 102,   0,   0,   0,   0, 250,  78, 104, 102,   0,   0,   0,   0, 244,  91,
        83, 149,   3,   0,   0,   0, 174, 115, 222,   0,   0,   0,   0,   0,  17, 206,
        45,  18,   0,   0,   0,   0 >>

---------------------------------------------------------------------------
(* Inputs.                                                                 *)

\* byte i (from 0) of the buffer pattern `seed`: seed 0 is all 0xff, every
\* other seed changes from each byte to the next
Fill(seed, i) ==
    IF seed = 0 THEN 255 ELSE (seed * 89 + i * 37 * (2 * seed + 1)) % 256

AnchorLens == {0, 4, 8, 32, 84, 125}
Lens == {a + d : a \in AnchorLens, d \in 0..MaxExtra}

\* two bytes put in place of the pattern's: a tag byte and the byte after it
\* at the start of the buffer (where get_verification_from_bytes reads them)
\* or at offset 32 (where get_price_update_v2_from_bytes does), or the two
\* bytes at offset 84, after the last field get_feed_from_bytes reads
Overrides ==
    {[on |-> FALSE, pos |-> 0, tag |-> 0, snd |-> 0]} \cup
    [on : {TRUE}, pos : {0, 32, 84}, tag : {0, 1, 2}, snd : {0, 5, 255}]

MakeBuf(len, seed, ov) ==
    [i \in 1..len |->
        IF ov.on /\ i = ov.pos + 1 THEN ov.tag
        ELSE IF ov.on /\ i = ov.pos + 2 THEN ov.snd
        ELSE Fill(seed, i - 1)]

\* the slices the crate's tests decode
TestSlices ==
    { Slice(MainnetAccount, 8, Len(MainnetAccount)),
      Slice(MainnetAccount, 41, 129),
      Slice(MainnetAccount, 41, 125),
      Slice(MainnetAccount, 40, 41),
      Slice(MainnetAccount, 89, 93),
      Slice(MainnetAccount, 93, 101),
      Slice(DevnetAccount, 8, Len(DevnetAccount)),
      Slice(DevnetAccount, 42, 126),
      Slice(DevnetAccount, 40, 42) }

Buffers ==
    {MakeBuf(len, seed, ov) :
        len \in Lens, seed \in 0..(NumSeeds - 1), ov \in Overrides}
    \cup TestSlices

\* the values within MaxDelta of z
Near(z) ==
    {ZAdd(z, ZNat(d)) : d \in 0..MaxDelta} \cup
    {ZAdd(z, ZNeg(ZNat(d))) : d \in 0..MaxDelta}

\* i64 timestamps, u64 ages
Times ==
    {t \in Near(I64Min) \cup Near(ZNat(0)) \cup Near(I64Max) :
        ZLeq(I64Min, t) /\ ZLeq(t, I64Max)}
Ages ==
    {a \in Near(ZNat(0)) \cup Near(I64Max) \cup Near(U64Max) :
        ZLeq(ZNat(0), a) /\ ZLeq(a, U64Max)}

SigCounts == 0..MaxSigs \cup {255}
Levels == {Full} \cup {Partial(n) : n \in SigCounts}
AllLevels == {Full} \cup {Partial(n) : n \in Byte}

\* price messages: the one of the mainnet account, and one of a pattern
SampleMessages ==
    { get_feed_from_bytes(Slice(MainnetAccount, 41, 129)).val,
      get_feed_from_bytes(MakeBuf(88, 1, CHOOSE ov \in Overrides : ~ov.on)).val }

Records ==
    {[write_authority    |-> Slice(MainnetAccount, 8, 40),
      verification_level |-> lvl,
      price_message      |-> [m EXCEPT !.publish_time = t],
      posted_slot        |-> ZNat(7)] :
        lvl \in Levels, m \in SampleMessages, t \in Times}

\* feed ids asked for: none, those of the messages, and the mainnet one with
\* its first, or its last, byte changed
FeedArgs ==
    LET f == Slice(MainnetAccount, 41, 73)
    IN  {None} \cup {Some(m.feed_id) : m \in SampleMessages}
        \cup {Some([f EXCEPT ![1] = (f[1] + 1) % 256]),
              Some([f EXCEPT ![32] = (f[32] + 1) % 256])}

Idle == [op |-> "none"]

---------------------------------------------------------------------------
(* The decoders, each applied to a buffer.                                 *)

InitDecode ==
    /\ v \in Buffers
    /\ decoded = Idle
    /\ self = Idle /\ call = Idle /\ res = Idle
    /\ lhs = Idle /\ rhs = Idle /\ cmp = Idle

GetFeedFromBytes ==
    /\ decoded = Idle
    /\ decoded' = [op |-> "get_feed_from_bytes", out |-> get_feed_from_bytes(v)]
    /\ UNCHANGED <<v, self, call, res, lhs, rhs, cmp>>

GetVerificationFromBytes ==
    /\ decoded = Idle
    /\ decoded' = [op  |-> "get_verification_from_bytes",
                   out |-> get_verification_from_bytes(v)]
    /\ UNCHANGED <<v, self, call, res, lhs, rhs, cmp>>

GetPriceUpdateV2FromBytes ==
    /\ decoded = Idle
    /\ decoded' = [op  |-> "get_price_update_v2_from_bytes",
                   out |-> get_price_update_v2_from_bytes(v)]
    /\ UNCHANGED <<v, self, call, res, lhs, rhs, cmp>>

InterpretBytesAsI64 ==
    /\ decoded = Idle
    /\ decoded' = [op |-> "interpret_bytes_as_i64", out |-> interpret_bytes_as_i64(v)]
    /\ UNCHANGED <<v, self, call, res, lhs, rhs, cmp>>

InterpretBytesAsI32 ==
    /\ decoded = Idle
    /\ decoded' = [op |-> "interpret_bytes_as_i32", out |-> interpret_bytes_as_i32(v)]
    /\ UNCHANGED <<v, self, call, res, lhs, rhs, cmp>>

InterpretBytesAsU64 ==
    /\ decoded = Idle
    /\ decoded' = [op |-> "interpret_bytes_as_u64", out |-> interpret_bytes_as_u64(v)]
    /\ UNCHANGED <<v, self, call, res, lhs, rhs, cmp>>

NextDecode ==
    \/ GetFeedFromBytes
    \/ GetVerificationFromBytes
    \/ GetPriceUpdateV2FromBytes
    \/ InterpretBytesAsI64
    \/ InterpretBytesAsI32
    \/ InterpretBytesAsU64

SpecDecode == InitDecode /\ [][NextDecode]_vars

---------------------------------------------------------------------------
(* The queries, each made on a record.                                     *)

InitQuery ==
    /\ self \in Records
    /\ call = Idle /\ res = Idle
    /\ v = Idle /\ decoded = Idle
    /\ lhs = Idle /\ rhs = Idle /\ cmp = Idle

GetPriceUnchecked ==
    /\ call = Idle
    /\ \E feed_id \in FeedArgs :
        /\ call' = [op |-> "get_price_unchecked", feed_id |-> feed_id]
        /\ res' = get_price_unchecked(self, feed_id)
    /\ UNCHANGED <<self, v, decoded, lhs, rhs, cmp>>

GetPriceNoOlderThanWithCustomVerificationLevel ==
    /\ call = Idle
    /\ \E unix_timestamp \in Times, maximum_age \in Ages,
          feed_id \in FeedArgs, verification_level \in Levels :
        /\ call' = [op |-> "get_price_no_older_than_with_custom_verification_level",
                    unix_timestamp |-> unix_timestamp,
                    maximum_age |-> maximum_age,
                    feed_id |-> feed_id,
                    verification_level |-> verification_level]
        /\ res' = get_price_no_older_than_with_custom_verification_level(
                      self, unix_timestamp, maximum_age, feed_id,
                      verification_level)
    /\ UNCHANGED <<self, v, decoded, lhs, rhs, cmp>>

GetPriceNoOlderThan ==
    /\ call = Idle
    /\ \E unix_timestamp \in Times, maximum_age \in Ages, feed_id \in FeedArgs :
        /\ call' = [op |-> "get_price_no_older_than",
                    unix_timestamp |-> unix_timestamp,
                    maximum_age |-> maximum_age,
                    feed_id |-> feed_id]
        /\ res' = get_price_no_older_than(self, unix_timestamp, maximum_age,
                                          feed_id)
    /\ UNCHANGED <<self, v, decoded, lhs, rhs, cmp>>

NextQuery ==
    \/ GetPriceUnchecked
    \/ GetPriceNoOlderThanWithCustomVerificationLevel
    \/ GetPriceNoOlderThan

SpecQuery == InitQuery /\ [][NextQuery]_vars

---------------------------------------------------------------------------
(* VerificationLevel::gte, applied to two levels.                          *)

InitGte ==
    /\ lhs \in AllLevels
    /\ rhs \in AllLevels
    /\ cmp = Idle
    /\ v = Idle /\ decoded = Idle
    /\ self = Idle /\ call = Idle /\ res = Idle

Gte ==
    /\ cmp = Idle
    /\ cmp' = [op |-> "gte", out |-> gte(lhs, rhs)]
    /\ UNCHANGED <<lhs, rhs, v, decoded, self, call, res>>

NextGte == Gte

SpecGte == InitGte /\ [][NextGte]_vars

---------------------------------------------------------------------------
(* What the specification expects, stated apart from the operators above.  *)

MagMulSmall(a, m) ==
    LET c[k \in 0..NLimbs] ==
            IF k = 0 THEN 0 ELSE (a[k] * m + c[k - 1]) \div Radix
    IN  [k \in LimbIx |-> (a[k] * m + c[k - 1]) % Radix]

\* the number written with the decimal digits ds
RECURSIVE DecMag(_, _)
DecMag(ds, n) ==
    IF n = 0 THEN MagZero
    ELSE MagAdd(MagMulSmall(DecMag(ds, n - 1), 10), ZNat(ds[n]).mag)
Dec(ds) == ZMake(FALSE, DecMag(ds, Len(ds)))

\* sum of bytes[k] * 256^k, k from 0
RECURSIVE LittleEndianMag(_, _)
LittleEndianMag(bytes, k) ==
    IF k > Len(bytes) THEN MagZero
    ELSE MagAdd(MagMulSmall(LittleEndianMag(bytes, k + 1), 256),
                ZNat(bytes[k]).mag)
UnsignedValue(bytes) == ZMake(FALSE, LittleEndianMag(bytes, 1))

\* the two's-complement reading: the value congruent to the unsigned one
\* modulo 256^n that lies in -256^n/2 .. 256^n/2 - 1
SignedValue(bytes) ==
    LET u == UnsignedValue(bytes)
        modulus == ZMake(FALSE, MagPow256(Len(bytes)))
    IN  IF ZLess(ZAdd(u, u), modulus) THEN u ELSE ZAdd(u, ZNeg(modulus))

\* the layout table of the price message: 84 bytes, no padding
ExpectedMessage(b) ==
    [feed_id           |-> Slice(b, 0, 32),
     price             |-> SignedValue(Slice(b, 32, 40)),
     conf              |-> UnsignedValue(Slice(b, 40, 48)),
     exponent          |-> SignedValue(Slice(b, 48, 52)),
     publish_time      |-> SignedValue(Slice(b, 52, 60)),
     prev_publish_time |-> SignedValue(Slice(b, 60, 68)),
     ema_price         |-> SignedValue(Slice(b, 68, 76)),
     ema_conf          |-> UnsignedValue(Slice(b, 76, 84))]

\* the values the tests expect of the mainnet account's message
MainnetMessage ==
    [feed_id           |-> Slice(MainnetAccount, 41, 73),
     price             |-> Dec(<<1, 6, 7, 0, 6, 4, 6, 9, 6, 4, 8>>),
     conf              |-> Dec(<<2, 2, 3, 9, 0, 6, 0, 1>>),
     exponent          |-> ZNeg(Dec(<<8>>)),
     publish_time      |-> Dec(<<1, 7, 1, 7, 7, 8, 2, 8, 3, 3>>),
     prev_publish_time |-> Dec(<<1, 7, 1, 7, 7, 8, 2, 8, 3, 2>>),
     ema_price         |-> Dec(<<1, 6, 8, 6, 3, 7, 0, 8, 3, 0, 0>>),
     ema_conf          |-> Dec(<<1, 6, 9, 7, 9, 0, 9, 9>>)]

\* the record the specification's decode steps give for a buffer with the
\* trust-level region `width` bytes wide
ExpectedRecord(b, level, width) ==
    [write_authority    |-> Slice(b, 0, 32),
     verification_level |-> level,
     price_message      |-> ExpectedMessage(Slice(b, 32 + width, 116 + width)),
     posted_slot        |-> UnsignedValue(Slice(b, 116 + width, 124 + width))]

---------------------------------------------------------------------------
(* The claims.                                                             *)

\* C1: get_price_update_v2_from_bytes returns a record for every well-formed
\* buffer: with at least 125 bytes and byte 32 = 0x01 the record has the
\* writer identity of bytes 0..32, level Full, the message of bytes 33..117
\* and the slot of bytes 117..125; with at least 126 bytes and byte 32 = 0x00
\* it has level Partial{byte 33} and every later field one byte further on.
C1_DecodeReturnsRecord ==
    decoded.op = "get_price_update_v2_from_bytes" =>
        /\ (Len(v) >= 125 /\ v[33] = 1) =>
                decoded.out = Ok(ExpectedRecord(v, Full, 1))
        /\ (Len(v) >= 126 /\ v[33] = 0) =>
                decoded.out = Ok(ExpectedRecord(v, Partial(v[34]), 2))

\* C2: get_feed_from_bytes accepts a slice of exactly 84 bytes and returns
\* the message of the layout table; a slice of any other length aborts.
C2_FeedFromBytesTakes84 ==
    decoded.op = "get_feed_from_bytes" =>
        IF Len(v) = 84 THEN decoded.out = Ok(ExpectedMessage(v))
        ELSE decoded.out = Abort

IsWithCustom ==
    call.op = "get_price_no_older_than_with_custom_verification_level"
FeedIdDiffers ==
    /\ call.feed_id.some
    /\ \E i \in 1..32 : call.feed_id.val[i] # self.price_message.feed_id[i]
TrustSuffices == gte(self.verification_level, call.verification_level)
ProjectedPrice ==
    [price        |-> self.price_message.price,
     conf         |-> self.price_message.conf,
     exponent     |-> self.price_message.exponent,
     publish_time |-> self.price_message.publish_time]

\* C4: in get_price_no_older_than_with_custom_verification_level the trust
\* check comes first: an insufficient level gives InsufficientVerificationLevel
\* whatever the feed id and the age; MismatchedFeedId is returned only when
\* the trust check passed, PriceTooOld only when the trust check and the
\* feed-id check passed.
C4_TrustCheckedFirst ==
    IsWithCustom =>
        /\ ~TrustSuffices => res = Err("InsufficientVerificationLevel")
        /\ res = Err("MismatchedFeedId") => TrustSuffices
        /\ res = Err("PriceTooOld") => TrustSuffices /\ ~FeedIdDiffers

\* an insufficient level, a wrong feed id and a price far too old, at once
C4_Witness ==
    /\ IsWithCustom
    /\ ~TrustSuffices
    /\ FeedIdDiffers
    /\ self.price_message.publish_time = I64Min
    /\ call.maximum_age = ZNat(0)
    /\ call.unix_timestamp = ZNat(0)
    /\ res = Err("InsufficientVerificationLevel")

\* C5: the age comparison is inclusive: on a sufficiently trusted record with
\* a matching (or no) feed id the call fails with PriceTooOld exactly when
\* publish_time + max_age < now, and otherwise returns the price.
C5_AgeInclusive ==
    (IsWithCustom /\ TrustSuffices /\ ~FeedIdDiffers) =>
        res = IF ZLess(ZAdd(self.price_message.publish_time, call.maximum_age),
                       call.unix_timestamp)
              THEN Err("PriceTooOld")
              ELSE Ok(ProjectedPrice)

\* C6: for every max_age of the unsigned 64-bit range the call on a
\* sufficiently trusted, feed-matching record adds with saturation and returns
\* the price or PriceTooOld; it never aborts because max_age is large.
C6_LargeAgeSaturates ==
    (IsWithCustom /\ TrustSuffices /\ ~FeedIdDiffers) =>
        LET sum == ZAdd(self.price_message.publish_time, call.maximum_age)
            saturated == IF ZLess(I64Max, sum) THEN I64Max ELSE sum
        IN  /\ res.kind # "abort"
            /\ res = Err("PriceTooOld") <=> ZLess(saturated, call.unix_timestamp)
            /\ res = Ok(ProjectedPrice) <=> ~ZLess(saturated, call.unix_timestamp)

\* the order of the trust levels: Full above every Partial, the Partial ones
\* by their signature count
Rank(level) == IF level.variant = "Full" THEN 256 ELSE level.num_signatures

\* C7: gte is a total preorder with Full on top: Full.gte(Full) and
\* Full.gte(Partial{n}) are true, Partial{n}.gte(Full) is false,
\* Partial{a}.gte(Partial{b}) is a >= b, for all a, b, n in 0..255; so gte is
\* reflexive, transitive, and one of x.gte(y), y.gte(x) always holds.
C7_GteTotalPreorder ==
    cmp.op = "gte" =>
        /\ cmp.out = (Rank(lhs) >= Rank(rhs))
        /\ lhs = Full => cmp.out
        /\ (lhs # Full /\ rhs = Full) => ~cmp.out
        /\ lhs = rhs => cmp.out
        /\ cmp.out \/ gte(rhs, lhs)
        /\ \A z \in AllLevels : (cmp.out /\ gte(rhs, z)) => gte(lhs, z)

C7_Witness ==
    /\ cmp.op = "gte"
    /\ lhs = Partial(3)
    /\ rhs = Partial(5)
    /\ cmp.out = FALSE

\* C8: get_verification_from_bytes on 1 or 2 bytes: a first byte 0x01 gives
\* Full whether or not a second byte follows; 0x00 with a second byte n gives
\* Partial{n}; 0x00 alone aborts; any other first byte aborts; an input of
\* length 0 or more than 2 aborts.
C8_VerificationFromBytes ==
    decoded.op = "get_verification_from_bytes" =>
        /\ (Len(v) \in {1, 2} /\ v[1] = 1) => decoded.out = Ok(Full)
        /\ (Len(v) = 2 /\ v[1] = 0) => decoded.out = Ok(Partial(v[2]))
        /\ (Len(v) = 1 /\ v[1] = 0) => decoded.out = Abort
        /\ (Len(v) \in {1, 2} /\ v[1] \notin {0, 1}) => decoded.out = Abort
        /\ Len(v) \notin {1, 2} => decoded.out = Abort

C8_Witness ==
    /\ decoded.op = "get_verification_from_bytes"
    /\ v = <<0, 5>>
    /\ decoded.out = Ok(Partial(5))

\* C9: get_price_unchecked checks neither trust nor age: a supplied feed id
\* differing in any byte from the record's gives MismatchedFeedId; otherwise
\* the result is the price, confidence, exponent and publish time of the
\* record's message, whatever its trust level and publish time.
C9_UncheckedProjects ==
    call.op = "get_price_unchecked" =>
        res = IF FeedIdDiffers THEN Err("MismatchedFeedId")
              ELSE Ok(ProjectedPrice)

\* a record of the lowest trust and the oldest time, asked with its own id
C9_Witness ==
    /\ call.op = "get_price_unchecked"
    /\ self.verification_level = Partial(0)
    /\ self.price_message.publish_time = I64Min
    /\ call.feed_id = Some(self.price_message.feed_id)
    /\ res = Ok(ProjectedPrice)

\* C10: get_price_no_older_than returns what the custom-level query returns
\* for the required level Full; so every record of level Partial{n} is
\* rejected with InsufficientVerificationLevel.
C10_NoOlderThanRequiresFull ==
    call.op = "get_price_no_older_than" =>
        /\ res = get_price_no_older_than_with_custom_verification_level(self, call.unix_timestamp, call.maximum_age, call.feed_id, Full)
        /\ self.verification_level.variant = "Partial" =>
                res = Err("InsufficientVerificationLevel")
        /\ (self.verification_level = Full /\ ~FeedIdDiffers
                /\ ZLeq(call.maximum_age, I64Max)
                /\ ZLeq(call.unix_timestamp, self.price_message.publish_time))
            => res = Ok(ProjectedPrice)

C10_Witness ==
    /\ call.op = "get_price_no_older_than"
    /\ self.verification_level = Partial(255)
    /\ ~FeedIdDiffers
    /\ call.unix_timestamp = self.price_message.publish_time
    /\ res = Err("InsufficientVerificationLevel")

\* the decode of a buffer's first n bytes
DecodedPrefix(n) == get_price_update_v2_from_bytes(Slice(v, 0, n))

ToLeBytes(z, n) ==
    LET pattern == IF z.neg THEN MagSub(MagPow256(n), z.mag) ELSE z.mag
    IN  [i \in 1..n |->
            IF i % 2 = 1 THEN pattern[(i + 1) \div 2] % 256
            ELSE pattern[i \div 2] \div 256]

\* the eight fields written back in the order of the layout table
EncodeMessage(m) ==
    m.feed_id \o ToLeBytes(m.price, 8) \o ToLeBytes(m.conf, 8)
        \o ToLeBytes(m.exponent, 4) \o ToLeBytes(m.publish_time, 8)
        \o ToLeBytes(m.prev_publish_time, 8) \o ToLeBytes(m.ema_price, 8)
        \o ToLeBytes(m.ema_conf, 8)

\* C12: on the inputs get_feed_from_bytes accepts, decoding is a bijection
\* onto the eight fields: two accepted inputs that differ in a byte decode to
\* messages that differ in a field, and writing the eight decoded fields back
\* in layout order gives the input bytes again.
C12_DecodeBijective ==
    (decoded.op = "get_feed_from_bytes" /\ decoded.out.kind = "ok") =>
        /\ EncodeMessage(decoded.out.val) = v
        /\ \A w \in Buffers :
                (w # v /\ get_feed_from_bytes(w).kind = "ok")
                    => get_feed_from_bytes(w) # decoded.out

\* C13: get_price_update_v2_from_bytes never takes an unrecognized tag for a
\* known variant: with byte 32 neither 0x00 nor 0x01 the peek selects the
\* 2-byte region v[32..34], whose decode aborts, and no record is returned;
\* and a buffer too short for every field at the resolved offsets aborts.
C13_UnknownTagAborts ==
    decoded.op = "get_price_update_v2_from_bytes" =>
        /\ (Len(v) > 32 /\ v[33] \notin {0, 1}) =>
                /\ decoded.out = Abort
                /\ Len(v) >= 34 =>
                        get_verification_from_bytes(Slice(v, 32, 34)) = Abort
        /\ (Len(v) > 32 /\ v[33] = 1 /\ Len(v) < 125) => decoded.out = Abort
        /\ (Len(v) > 32 /\ v[33] # 1 /\ Len(v) < 126) => decoded.out = Abort
        /\ Len(v) <= 32 => decoded.out = Abort

C13_Witness ==
    /\ decoded.op = "get_price_update_v2_from_bytes"
    /\ Len(v) = 126
    /\ v[33] = 2
    /\ decoded.out = Abort

\* C14: interpret_bytes_as_i64, interpret_bytes_as_u64 and
\* interpret_bytes_as_i32 return, for a slice of exactly 8, 8 and 4 bytes, the
\* little-endian value sum(bytes[k] * 256^k), as two's complement for the
\* signed readers (f8 ff ff ff reads as -8) and non-negative for the unsigned
\* one; a slice of any other length aborts.
C14_ByteReaders ==
    /\ decoded.op = "interpret_bytes_as_i64" =>
            decoded.out = IF Len(v) = 8 THEN Ok(SignedValue(v)) ELSE Abort
    /\ decoded.op = "interpret_bytes_as_u64" =>
            /\ decoded.out = IF Len(v) = 8 THEN Ok(UnsignedValue(v)) ELSE Abort
            /\ decoded.out.kind = "ok" => ~decoded.out.val.neg
    /\ decoded.op = "interpret_bytes_as_i32" =>
            /\ decoded.out = IF Len(v) = 4 THEN Ok(SignedValue(v)) ELSE Abort
            /\ v = <<248, 255, 255, 255>> => decoded.out = Ok(ZNeg(Dec(<<8>>)))

C14_Witness ==
    /\ decoded.op = "interpret_bytes_as_i32"
    /\ v = <<248, 255, 255, 255>>
    /\ decoded.out = Ok(ZNeg(ZNat(8)))

\* the query of the state, made again with the required level r
WithRequired(r) ==
    get_price_no_older_than_with_custom_verification_level(self, call.unix_timestamp, call.maximum_age, call.feed_id, r)

\* C15: lowering the required level never changes a passing outcome: if the
\* query with required level r does not fail with
\* InsufficientVerificationLevel, then for every level r' with r.gte(r') the
\* query with r' returns the identical result.
C15_LoweringKeepsOutcome ==
    (IsWithCustom /\ res # Err("InsufficientVerificationLevel")) =>
        \A r \in Levels :
            gte(call.verification_level, r) => WithRequired(r) = res

\* a price passed at Partial{1}, with Partial{0} below it
C15_Witness ==
    /\ IsWithCustom
    /\ self.verification_level = Partial(2)
    /\ call.verification_level = Partial(1)
    /\ res = Ok(ProjectedPrice)
    /\ WithRequired(Partial(0)) = res

====
